---- MODULE Spec2Model ----
(***************************************************************************)
(* A model of train.py: the MNIST / factorization-machines demonstration   *)
(* script.  The script is one straight-line module body; every statement   *)
(* that talks to an external system is a blocking call that either returns *)
(* or raises, and nothing catches what is raised.                          *)
(*                                                                         *)
(* Strings are sequences of tokens, with the separators "/" and ":" tokens *)
(* of their own, so that joining, formatting and resolving a locator are   *)
(* computed rather than assumed.  Python's 0-based row i is row i + 1.     *)
(***************************************************************************)
EXTENDS Integers, Sequences, FiniteSets, TLC

(* ------------------------------ bounds -------------------------------- *)
\* test split sizes are q * NumChunks + r, q in 0..MaxQuot, with r in 0..MaxRem
\* or r = NumChunks - 1
MaxQuot == 1
MaxRem == 2
\* train split sizes are SampleIdx .. SampleIdx + MaxTrainExtra
MaxTrainExtra == 1
\* the label of row i of a split is (i - 1 + shift) % NumClasses, shift in 0..MaxLabelShift
MaxLabelShift == 1
\* cross-tabulation inputs of the pure-function specification
MaxLen == 4
MaxDigit == 2

(* -------------------------- program constants ------------------------- *)
bucket == <<"localide">>
prefix == <<"sagemaker", "/", "DEMO-1">>
key == <<"recordio-pb-data">>
NumChunks == 100
SampleIdx == 30
NumClasses == 10

TestSizes ==
  { q * NumChunks + r : q \in 0..MaxQuot, r \in (0..MaxRem) \cup {NumChunks - 1} }
TrainSizes == SampleIdx .. (SampleIdx + MaxTrainExtra)
\* what a trained and hosted model answers: the right label, the opposite
\* label, or a response that is one prediction short
ModelKinds == {"exact", "inverted", "truncating"}
\* the names the hosting service may give the endpoint it creates
EndpointNames == {"ep-a", "ep-b"}
NoEndpoint == "none"

(* ------------------------------ strings ------------------------------- *)
\* posixpath.join of two components
PathJoin2(a, b) ==
  IF b # <<>> /\ b[1] = "/" THEN b
  ELSE IF a = <<>> \/ a[Len(a)] = "/" THEN a \o b
  ELSE a \o <<"/">> \o b

\* os.path.join(prefix, 'train', key)
ObjectKey(p, k) == PathJoin2(PathJoin2(p, <<"train">>), k)

\* (mutation) the locator leaves out the 'train' folder
S3TrainDataNoFolder(b, p, k) == <<"s3", ":", "/", "/">> \o b \o <<"/">> \o p \o <<"/">> \o k

\* 's3://{}/{}/train/{}'.format(bucket, prefix, key)
S3TrainData(b, p, k) ==
  <<"s3", ":", "/", "/">> \o b \o <<"/">> \o p \o <<"/", "train", "/">> \o k

\* how an s3:// locator is resolved: the bucket is what lies between the
\* scheme and the next "/", the object key is everything after that "/"
RECURSIVE FirstSlash(_, _)
FirstSlash(s, i) ==
  IF i > Len(s) THEN 0
  ELSE IF s[i] = "/" THEN i
  ELSE FirstSlash(s, i + 1)

HasS3Scheme(uri) == Len(uri) >= 4 /\ SubSeq(uri, 1, 4) = <<"s3", ":", "/", "/">>
UriRest(uri) == SubSeq(uri, 5, Len(uri))
UriBucket(uri) ==
  LET r == UriRest(uri) f == FirstSlash(r, 1)
  IN  IF f = 0 THEN r ELSE SubSeq(r, 1, f - 1)
UriKey(uri) ==
  LET r == UriRest(uri) f == FirstSlash(r, 1)
  IN  IF f = 0 THEN <<>> ELSE SubSeq(r, f + 1, Len(r))

(* ------------------------------ datasets ------------------------------ *)
\* a split of the archive: n rows, row i carrying digit labels[i]
Split(n, shift) == [n |-> n, labels |-> [i \in 1..n |-> (i - 1 + shift) % NumClasses]]
NoSplit == [n |-> 0, labels |-> <<>>]

F32(x) == [dtype |-> "float32", val |-> x]

\* np.where(labels == 0, 1.0, 0.0).astype('float32'), one label
BinarizeTrain(L) == IF L = 0 THEN F32(1) ELSE F32(0)

\* (mutation) the evaluation takes digit one as the positive class
BinarizeActualOne(L) == IF L = 1 THEN 1 ELSE 0

\* np.where(test_set[1] == 0, 1, 0), one label
BinarizeActual(L) == IF L = 0 THEN 1 ELSE 0

(* ----------------------------- array_split ---------------------------- *)
\* (mutation) equal parts only, as np.split would cut them: the remainder is lost
SectionSizeEqual(n, sections, c) == n \div sections

\* np.array_split(ary, sections) on n rows: the first n % sections parts
\* have n \div sections + 1 rows, the others n \div sections
SectionSize(n, sections, c) ==
  IF c <= n % sections THEN (n \div sections) + 1 ELSE n \div sections

\* the sizes of parts from..to, added up (by halves, to keep the recursion shallow)
RECURSIVE SizeSum(_, _, _, _)
SizeSum(n, sections, from, to) ==
  IF from > to THEN 0
  ELSE IF from = to THEN SectionSize(n, sections, from)
  ELSE LET mid == (from + to) \div 2
       IN  SizeSum(n, sections, from, mid) + SizeSum(n, sections, mid + 1, to)

\* the cumulative division points: np.array(section_sizes).cumsum()
DivPoint(n, sections, c) == SizeSum(n, sections, 1, c)

\* part c is rows lo..hi (1-based, empty when hi < lo)
ChunkLo(n, c) == DivPoint(n, NumChunks, c - 1) + 1
ChunkHi(n, c) == DivPoint(n, NumChunks, c)

(* ------------------------------ endpoint ------------------------------ *)
\* the label the hosted model gives a row whose digit is L
ModelLabel(kind, L) ==
  IF kind = "inverted" THEN (IF L = 0 THEN 0 ELSE 1) ELSE (IF L = 0 THEN 1 ELSE 0)

\* the 'predictions' list of the response to rows lo..hi of a split
Response(kind, split, lo, hi) ==
  LET n    == IF hi >= lo THEN hi - lo + 1 ELSE 0
      full == [j \in 1..n |-> [predicted_label |-> ModelLabel(kind, split.labels[lo + j - 1])]]
  IN  IF kind = "truncating" /\ n > 0 THEN SubSeq(full, 1, n - 1) ELSE full

\* [r['predicted_label'] for r in result['predictions']]
Labels(resp) == [j \in 1..Len(resp) |-> resp[j].predicted_label]

NoHandle ==
  [endpoint |-> NoEndpoint, content_type |-> "unset", serializer |-> "unset",
   deserializer |-> "unset"]

(* ---------------------------- cross-tabulation ------------------------ *)
Cell(t, a, p) == IF <<a, p>> \in DOMAIN t THEN t[<<a, p>>] ELSE 0

\* two tallies added cell by cell
AddTallies(t, u) ==
  [c \in DOMAIN t \cup DOMAIN u |-> Cell(t, c[1], c[2]) + Cell(u, c[1], c[2])]

\* the count of each (row value, column value) pair among rows from..to
\* (by halves, to keep the recursion shallow)
RECURSIVE Tally(_, _, _, _)
Tally(rows, cols, from, to) ==
  IF from > to THEN [c \in {} |-> 0]
  ELSE IF from = to THEN [c \in {<<rows[from], cols[from]>>} |-> 1]
  ELSE LET mid == (from + to) \div 2
       IN  AddTallies(Tally(rows, cols, from, mid), Tally(rows, cols, mid + 1, to))

\* (mutation) the two arguments swapped
CrosstabSwapped(rows, cols) == Tally(cols, rows, 1, Len(rows))

\* pd.crosstab(rows, cols): the paired values are grouped and each group is
\* counted; a pair that never occurs has no count
Crosstab(rows, cols) == Tally(rows, cols, 1, Len(rows))

NoTable == [c \in {} |-> 0]

(* -------------------------------- state ------------------------------- *)
VARIABLES
  pc,            \* the statement the script is at, "done" or "aborted"
  train_set,     \* the train split
  test_set,      \* the test split
  labels,        \* the binarized training labels handed to the encoder
  objects,       \* the object store: a set of [bucket, key] written
  s3_train_data, \* the locator string
  fit_inputs,    \* the locator fit was given as its 'train' channel
  model,         \* the kind of model training produced
  endpoints,     \* the endpoints that exist at the hosting service
  fm_predictor,  \* the endpoint handle
  predictions,   \* the predicted labels gathered by the evaluation loop
  chunk,         \* the part the evaluation loop is at
  actuals,       \* the binarized test labels handed to the cross-tabulation
  table,         \* the cross-tabulation
  trace          \* every step started so far, in order, with its outcome

vars == <<pc, train_set, test_set, labels, objects, s3_train_data, fit_inputs,
          model, endpoints, fm_predictor, predictions, chunk, actuals, table,
          trace>>

\* a step of the script: ep is the endpoint a call addressed, part the chunk
\* an evaluation call carried, rows lo..hi the rows it sent
Ev(step, ok, ep, part, lo, hi) ==
  [step |-> step, ok |-> ok, ep |-> ep, part |-> part, lo |-> lo, hi |-> hi]
Plain(step, ok) == Ev(step, ok, NoEndpoint, 0, 1, 0)

Init ==
  /\ pc = "fetch"
  /\ train_set = NoSplit
  /\ test_set = NoSplit
  /\ labels = <<>>
  /\ objects = {}
  /\ s3_train_data = <<>>
  /\ fit_inputs = <<>>
  /\ model = "none"
  /\ endpoints = {}
  /\ fm_predictor = NoHandle
  /\ predictions = <<>>
  /\ chunk = 0
  /\ actuals = <<>>
  /\ table = NoTable
  /\ trace = <<>>

\* (mutation) the script ends after the cross-tabulation: no teardown
NextStmtNoTeardown(s) ==
  CASE s = "fetch" -> "show_digit"
    [] s = "show_digit" -> "encode"
    [] s = "encode" -> "upload"
    [] s = "upload" -> "train"
    [] s = "train" -> "deploy"
    [] s = "deploy" -> "configure"
    [] s = "configure" -> "sample"
    [] s = "sample" -> "split"
    [] s = "split" -> "eval"
    [] s = "eval" -> "crosstab"
    [] s = "crosstab" -> "done"
    [] s = "teardown" -> "done"

\* (mutation) the sample prediction is made before the handle is configured
NextStmtSampleFirst(s) ==
  CASE s = "fetch" -> "show_digit"
    [] s = "show_digit" -> "encode"
    [] s = "encode" -> "upload"
    [] s = "upload" -> "train"
    [] s = "train" -> "deploy"
    [] s = "deploy" -> "sample"
    [] s = "sample" -> "configure"
    [] s = "configure" -> "split"
    [] s = "split" -> "eval"
    [] s = "eval" -> "crosstab"
    [] s = "crosstab" -> "teardown"
    [] s = "teardown" -> "done"

\* the module body top to bottom: the statement that follows each statement
\* (the evaluation loop's statement is followed by itself until its last part)
NextStmt(s) ==
  CASE s = "fetch" -> "show_digit"
    [] s = "show_digit" -> "encode"
    [] s = "encode" -> "upload"
    [] s = "upload" -> "train"
    [] s = "train" -> "deploy"
    [] s = "deploy" -> "configure"
    [] s = "configure" -> "sample"
    [] s = "sample" -> "split"
    [] s = "split" -> "eval"
    [] s = "eval" -> "crosstab"
    [] s = "crosstab" -> "teardown"
    [] s = "teardown" -> "done"

\* (mutation) a handler that tears the endpoint down before the script exits
RaiseWithTeardown(e) ==
  /\ pc' = "aborted"
  /\ trace' = trace \o <<e, [e EXCEPT !.step = "delete_endpoint", !.ok = TRUE]>>

\* (mutation) a handler that tries the failed statement again
RaiseRetry(e) ==
  /\ pc' = pc
  /\ trace' = Append(trace, e)

\* an exception nothing catches: the interpreter exits at the statement
Raise(e) ==
  /\ pc' = "aborted"
  /\ trace' = Append(trace, e)

Return(e, next) ==
  /\ pc' = next
  /\ trace' = Append(trace, e)

(* ------------------------------- steps -------------------------------- *)
\* lines 13-15: urlretrieve, gzip.open, pickle.load
Fetch ==
  /\ pc = "fetch"
  /\ \/ /\ \E tn \in TrainSizes, en \in TestSizes, shift \in 0..MaxLabelShift :
             /\ train_set' = Split(tn, shift)
             /\ test_set' = Split(en, shift)
          /\ Return(Plain("fetch", TRUE), NextStmt("fetch"))
     \/ /\ Raise(Plain("fetch", FALSE))
        /\ UNCHANGED <<train_set, test_set>>
  /\ UNCHANGED <<labels, objects, s3_train_data, fit_inputs, model, endpoints,
                 fm_predictor, predictions, chunk, actuals, table>>

\* line 29: train_set[0][30] and train_set[1][30] raise IndexError on a
\* train split of fewer than 31 rows
ShowDigit ==
  /\ pc = "show_digit"
  /\ IF SampleIdx + 1 <= train_set.n
       THEN Return(Plain("show_digit", TRUE), NextStmt("show_digit"))
       ELSE Raise(Plain("show_digit", FALSE))
  /\ UNCHANGED <<train_set, test_set, labels, objects, s3_train_data, fit_inputs,
                 model, endpoints, fm_predictor, predictions, chunk, actuals, table>>

\* lines 36-41: vectors, labels, write_numpy_to_dense_tensor, buf.seek(0)
Encode ==
  /\ pc = "encode"
  /\ labels' = [i \in 1..train_set.n |-> BinarizeTrain(train_set.labels[i])]
  /\ Return(Plain("encode", TRUE), NextStmt("encode"))
  /\ UNCHANGED <<train_set, test_set, objects, s3_train_data, fit_inputs, model,
                 endpoints, fm_predictor, predictions, chunk, actuals, table>>

\* lines 47-50: upload_fileobj to Bucket(bucket).Object(join(prefix, 'train', key)),
\* then the locator is formatted
Upload ==
  /\ pc = "upload"
  /\ \/ /\ objects' = objects \cup {[bucket |-> bucket, key |-> ObjectKey(prefix, key)]}
        /\ s3_train_data' = S3TrainData(bucket, prefix, key)
        /\ Return(Plain("upload", TRUE), NextStmt("upload"))
     \/ /\ Raise(Plain("upload", FALSE))
        /\ UNCHANGED <<objects, s3_train_data>>
  /\ UNCHANGED <<train_set, test_set, labels, fit_inputs, model, endpoints,
                 fm_predictor, predictions, chunk, actuals, table>>

\* the training service finds its input where the locator points
Readable(uri) ==
  /\ HasS3Scheme(uri)
  /\ [bucket |-> UriBucket(uri), key |-> UriKey(uri)] \in objects

\* lines 53-75: output location, container, session, estimator,
\* hyperparameters, fm.fit({'train': s3_train_data}); fit blocks until the
\* job ends and raises when it failed
Train ==
  /\ pc = "train"
  /\ fit_inputs' = s3_train_data
  /\ \/ /\ Readable(s3_train_data)
        /\ \E k \in ModelKinds : model' = k
        /\ Return(Plain("train", TRUE), NextStmt("train"))
     \/ /\ Raise(Plain("train", FALSE))
        /\ UNCHANGED model
  /\ UNCHANGED <<train_set, test_set, labels, objects, s3_train_data, endpoints,
                 fm_predictor, predictions, chunk, actuals, table>>

\* lines 77-78: fm_predictor = fm.deploy(...)
Deploy ==
  /\ pc = "deploy"
  /\ \/ \E ep \in EndpointNames \ endpoints :
          /\ endpoints' = endpoints \cup {ep}
          /\ fm_predictor' = [NoHandle EXCEPT !.endpoint = ep]
          /\ Return(Ev("deploy", TRUE, ep, 0, 1, 0), NextStmt("deploy"))
     \/ /\ Raise(Plain("deploy", FALSE))
        /\ UNCHANGED <<endpoints, fm_predictor>>
  /\ UNCHANGED <<train_set, test_set, labels, objects, s3_train_data, fit_inputs,
                 model, predictions, chunk, actuals, table>>

\* lines 90-92: the handle's content type, serializer and deserializer
Configure ==
  /\ pc = "configure"
  /\ fm_predictor' = [fm_predictor EXCEPT !.content_type = "application/json",
                                          !.serializer = "fm_serializer",
                                          !.deserializer = "json_deserializer"]
  /\ Return(Ev("configure", TRUE, fm_predictor.endpoint, 0, 1, 0), NextStmt("configure"))
  /\ UNCHANGED <<train_set, test_set, labels, objects, s3_train_data, fit_inputs,
                 model, endpoints, predictions, chunk, actuals, table>>

\* a predict call can return only from an endpoint that exists, through a
\* handle whose codec the service understands
Servable(h) ==
  /\ h.endpoint \in endpoints
  /\ h.content_type = "application/json"
  /\ h.serializer = "fm_serializer"
  /\ h.deserializer = "json_deserializer"

\* lines 94-95: result = fm_predictor.predict(train_set[0][30:31]); print
SamplePredict ==
  /\ pc = "sample"
  /\ LET e(ok) == Ev("sample", ok, fm_predictor.endpoint, 0, SampleIdx + 1,
                     IF train_set.n < SampleIdx + 1 THEN train_set.n ELSE SampleIdx + 1)
     IN  \/ /\ Servable(fm_predictor)
            /\ Return(e(TRUE), NextStmt("sample"))
         \/ Raise(e(FALSE))
  /\ UNCHANGED <<train_set, test_set, labels, objects, s3_train_data, fit_inputs,
                 model, endpoints, fm_predictor, predictions, chunk, actuals, table>>

\* lines 100-101: predictions = []; np.array_split(test_set[0], 100)
Split100 ==
  /\ pc = "split"
  /\ predictions' = <<>>
  /\ chunk' = 1
  /\ Return(Plain("split", TRUE), NextStmt("split"))
  /\ UNCHANGED <<train_set, test_set, labels, objects, s3_train_data, fit_inputs,
                 model, endpoints, fm_predictor, actuals, table>>

\* (mutation) each response is put in front of what was gathered
GatherInFront(ps, new) == new \o ps

\* line 103: predictions += [...]
Gather(ps, new) == ps \o new

\* the loop goes on to the next part, or ends after the last
AfterChunk(c) == IF c = NumChunks THEN NextStmt("eval") ELSE "eval"

\* lines 101-103: one iteration of the evaluation loop
EvalPredict ==
  /\ pc = "eval"
  /\ LET lo == ChunkLo(test_set.n, chunk)
         hi == ChunkHi(test_set.n, chunk)
         e(ok) == Ev("eval", ok, fm_predictor.endpoint, chunk, lo, hi)
     IN  \/ /\ Servable(fm_predictor)
            /\ predictions' = Gather(predictions, Labels(Response(model, test_set, lo, hi)))
            /\ chunk' = chunk + 1
            /\ Return(e(TRUE), AfterChunk(chunk))
         \/ /\ Raise(e(FALSE))
            /\ UNCHANGED <<predictions, chunk>>
  /\ UNCHANGED <<train_set, test_set, labels, objects, s3_train_data, fit_inputs,
                 model, endpoints, fm_predictor, actuals, table>>

\* lines 105-110: np.array(predictions); pd.crosstab(np.where(test_set[1] == 0, 1, 0),
\* predictions, ...); arrays of different lengths raise ValueError
CrosstabStep ==
  /\ pc = "crosstab"
  /\ actuals' = [i \in 1..test_set.n |-> BinarizeActual(test_set.labels[i])]
  /\ \/ /\ Len(predictions) = test_set.n
        /\ table' = Crosstab(actuals', predictions)
        /\ Return(Plain("crosstab", TRUE), NextStmt("crosstab"))
     \/ /\ Len(predictions) # test_set.n
        /\ Raise(Plain("crosstab", FALSE))
        /\ UNCHANGED table
  /\ UNCHANGED <<train_set, test_set, labels, objects, s3_train_data, fit_inputs,
                 model, endpoints, fm_predictor, predictions, chunk>>

\* (mutation) teardown names another endpoint than the handle's
TeardownOther ==
  /\ pc = "teardown"
  /\ \E other \in EndpointNames \ {fm_predictor.endpoint} :
       /\ endpoints' = endpoints \ {other}
       /\ pc' = "done"
       /\ trace' = Append(trace, [step |-> "delete_endpoint", ok |-> TRUE, ep |-> other,
                                  part |-> 0, lo |-> 1, hi |-> 0])
  /\ UNCHANGED <<train_set, test_set, labels, objects, s3_train_data, fit_inputs,
                 model, fm_predictor, predictions, chunk, actuals, table>>

\* line 113: sagemaker.Session().delete_endpoint(fm_predictor.endpoint)
Teardown ==
  /\ pc = "teardown"
  /\ LET e(ok) == Ev("delete_endpoint", ok, fm_predictor.endpoint, 0, 1, 0)
     IN  \/ /\ fm_predictor.endpoint \in endpoints
            /\ endpoints' = endpoints \ {fm_predictor.endpoint}
            /\ Return(e(TRUE), NextStmt("teardown"))
         \/ /\ Raise(e(FALSE))
            /\ UNCHANGED endpoints
  /\ UNCHANGED <<train_set, test_set, labels, objects, s3_train_data, fit_inputs,
                 model, fm_predictor, predictions, chunk, actuals, table>>

Next ==
  \/ Fetch
  \/ ShowDigit
  \/ Encode
  \/ Upload
  \/ Train
  \/ Deploy
  \/ Configure
  \/ SamplePredict
  \/ Split100
  \/ EvalPredict
  \/ CrosstabStep
  \/ Teardown

Spec == Init /\ [][Next]_vars

(* ------------- the cross-tabulation on arbitrary inputs --------------- *)
SeqsUpTo(S, n) == UNION { [1..m -> S] : m \in 0..n }

\* the script at line 105 with any test labels and any gathered predictions
InitTab ==
  /\ pc = "crosstab"
  /\ train_set = NoSplit
  /\ \E ls \in SeqsUpTo(0..MaxDigit, MaxLen) : test_set = [n |-> Len(ls), labels |-> ls]
  /\ labels = <<>>
  /\ objects = {}
  /\ s3_train_data = <<>>
  /\ fit_inputs = <<>>
  /\ model = "exact"
  /\ endpoints = {}
  /\ fm_predictor = NoHandle
  /\ predictions \in SeqsUpTo({0, 1}, MaxLen)
  /\ chunk = NumChunks + 1
  /\ actuals = <<>>
  /\ table = NoTable
  /\ trace = <<>>

NextTab == CrosstabStep

SpecTab == InitTab /\ [][NextTab]_vars

(* ------------------------- reading the trace -------------------------- *)
At(step) == { i \in DOMAIN trace : trace[i].step = step }
Times(step) == Cardinality(At(step))
Returned(step) == \E i \in At(step) : trace[i].ok
Terminated == pc \in {"done", "aborted"}
LastStep == IF trace = <<>> THEN "none" ELSE trace[Len(trace)].step
\* every part of the evaluation loop was sent and answered
IsEval(e) == e.step = "eval"
EvalCalls == SelectSeq(trace, IsEval)
EvaluationReturned ==
  LET E == EvalCalls
  IN  /\ { E[i].part : i \in DOMAIN E } = 1..NumChunks
      /\ \A i \in DOMAIN E : E[i].ok
\* the evaluation loop has run to its end
LoopEnded == pc \in {"crosstab", "teardown", "done"} \/ LastStep = "crosstab"

(* ------------------------------- C1 ----------------------------------- *)
\* C1 as stated: a run that got as far as evaluation and has ended invoked
\* delete_endpoint exactly once, whatever became of the prediction calls.
C1_TeardownOnceRegardless ==
  (Terminated /\ At("eval") # {}) => Times("delete_endpoint") = 1

\* C1, amended: delete_endpoint is never invoked more than once; when it is
\* invoked, all 100 evaluation calls and the cross-tabulation have returned
\* before it and nothing follows it; a run that has ended invoked it exactly
\* once if the sample call, every evaluation call and the cross-tabulation
\* returned (whichever labels were predicted) and not at all otherwise.
C1_TeardownOnceAfterEvaluation ==
  /\ Times("delete_endpoint") <= 1
  /\ \A d \in At("delete_endpoint") :
       /\ d = Len(trace)
       /\ { trace[i].part : i \in { j \in At("eval") : j < d /\ trace[j].ok } }
            = 1..NumChunks
       /\ \E x \in At("crosstab") : x < d /\ trace[x].ok
  /\ Terminated =>
       (Times("delete_endpoint") =
          IF Returned("sample") /\ EvaluationReturned /\ Returned("crosstab")
            THEN 1 ELSE 0)

\* a finished run in which every prediction was wrong, torn down once
C1_Witness ==
  /\ pc = "done"
  /\ model = "inverted"
  /\ test_set.n > NumChunks
  /\ Times("delete_endpoint") = 1

(* ------------------------------- C2 ----------------------------------- *)
\* C2: once deploy has returned, if the sample predict call, an evaluation
\* predict call or the cross-tabulation raises, the script has ended there,
\* delete_endpoint was never invoked and the endpoint still exists.
C2_EndpointLeaksOnLaterFailure ==
  (/\ Returned("deploy")
   /\ \E i \in DOMAIN trace :
        trace[i].step \in {"sample", "eval", "crosstab"} /\ ~trace[i].ok)
  => /\ pc = "aborted"
     /\ ~ENABLED Next
     /\ Times("delete_endpoint") = 0
     /\ fm_predictor.endpoint \in endpoints

\* the cross-tabulation raised after a complete evaluation, endpoint live
C2_Witness ==
  /\ pc = "aborted"
  /\ LastStep = "crosstab"
  /\ Times("eval") = NumChunks
  /\ endpoints # {}

(* ------------------------------- C3 ----------------------------------- *)
\* C3: every predict call comes after a deploy that returned and before any
\* delete_endpoint, and addresses the endpoint that deploy returned; the
\* endpoint deleted is the one deploy created; deploy runs at most once, and
\* the only endpoint that ever exists is the one the handle names.
C3_EndpointLifecycle ==
  LET D == At("deploy")
      K == At("delete_endpoint")
  IN
  /\ Cardinality(D) <= 1
  /\ \A i \in DOMAIN trace :
       trace[i].step \in {"sample", "eval"} =>
         /\ \E d \in D : d < i /\ trace[d].ok /\ trace[d].ep = trace[i].ep
         /\ trace[i].ep \in EndpointNames
         /\ \A k \in K : i < k
  /\ \A k \in K : \E d \in D : d < k /\ trace[d].ok /\ trace[d].ep = trace[k].ep
  /\ endpoints \subseteq {fm_predictor.endpoint}
  /\ pc = "done" => endpoints = {}

\* created, used for the sample and all 100 parts, deleted
C3_Witness ==
  /\ pc = "done"
  /\ Times("sample") = 1
  /\ Times("eval") = NumChunks
  /\ endpoints = {}

(* ------------------------------- C4 ----------------------------------- *)
\* C4: the locator handed to fit as its 'train' channel is the locator the
\* upload step produced, it reads s3://localide/sagemaker/DEMO-1/train/
\* recordio-pb-data, and the bucket and object key it resolves to are those
\* of the object the upload wrote.
C4_LocatorMatchesUpload ==
  Times("train") > 0 =>
    /\ fit_inputs = s3_train_data
    /\ fit_inputs = <<"s3", ":", "/", "/", "localide", "/", "sagemaker", "/", "DEMO-1",
                      "/", "train", "/", "recordio-pb-data">>
    /\ UriBucket(fit_inputs) = <<"localide">>
    /\ UriKey(fit_inputs) = <<"sagemaker", "/", "DEMO-1", "/", "train", "/",
                              "recordio-pb-data">>
    /\ objects = {[bucket |-> UriBucket(fit_inputs), key |-> UriKey(fit_inputs)]}

\* training ran on the uploaded object
C4_Witness ==
  /\ Returned("upload")
  /\ Returned("train")
  /\ fit_inputs # <<>>

(* ------------------------------- C5 ----------------------------------- *)
Order ==
  <<"fetch", "encode", "upload", "train", "deploy", "configure", "sample", "eval",
    "crosstab", "delete_endpoint">>
Listed(e) == \E r \in DOMAIN Order : Order[r] = e.step
Rank(step) == CHOOSE r \in DOMAIN Order : Order[r] = step
StepsTaken == SelectSeq(trace, Listed)

\* C5: the listed steps start in the listed order, beginning with the fetch;
\* each starts only after the one before it returned; none is skipped: a
\* step is followed by the next of the list, except that an evaluation call
\* for part c is followed by the call for part c + 1 until part 100.
C5_LinearSequence ==
  LET L == StepsTaken
  IN  /\ L # <<>> => L[1].step = "fetch"
      /\ \A i \in 1..(Len(L) - 1) :
           /\ L[i].ok
           /\ IF L[i].step = "eval" /\ L[i].part < NumChunks
                THEN L[i + 1].step = "eval" /\ L[i + 1].part = L[i].part + 1
                ELSE /\ Rank(L[i + 1].step) = Rank(L[i].step) + 1
                     /\ L[i + 1].step = "eval" => L[i + 1].part = 1
      /\ pc = "done" => L[Len(L)].step = "delete_endpoint" /\ L[Len(L)].ok

\* a run through all ten steps
C5_Witness ==
  /\ pc = "done"
  /\ \A r \in DOMAIN Order : Returned(Order[r])
  /\ Len(StepsTaken) = NumChunks + 9

(* ------------------------------- C6 ----------------------------------- *)
\* C6: a step that fails is the last step of the run and the script has
\* ended; fetch, upload, training, deployment, the sample call and teardown
\* are each attempted at most once, and each part of the test split is sent
\* at most once.
C6_FailureTerminatesNoRetry ==
  /\ \A i \in DOMAIN trace : ~trace[i].ok => (i = Len(trace) /\ pc = "aborted")
  /\ pc = "aborted" => (trace # <<>> /\ ~trace[Len(trace)].ok /\ ~ENABLED Next)
  /\ \A st \in {"fetch", "upload", "train", "deploy", "sample", "delete_endpoint"} :
       Times(st) <= 1
  /\ LET E == EvalCalls
     IN  Cardinality({ E[i].part : i \in DOMAIN E }) = Len(E)

\* the call for the last part failed after 99 had returned
C6_Witness ==
  /\ pc = "aborted"
  /\ LastStep = "eval"
  /\ trace[Len(trace)].part = NumChunks
  /\ Times("eval") = NumChunks

(* ------------------------------- C7 ----------------------------------- *)
\* C7: the label handed to the encoder for a training row is 1.0 if the
\* row's digit is 0 and 0.0 otherwise; the actual handed to the
\* cross-tabulation for a test row is 1 if the row's digit is 0 and 0
\* otherwise; so rows with the same digit are positive in both or in neither.
C7_BinarizeSameRule ==
  /\ Returned("encode") =>
       /\ Len(labels) = train_set.n
       /\ \A i \in 1..train_set.n :
            labels[i] = [dtype |-> "float32",
                         val |-> IF train_set.labels[i] = 0 THEN 1 ELSE 0]
  /\ At("crosstab") # {} =>
       /\ Len(actuals) = test_set.n
       /\ \A j \in 1..test_set.n :
            actuals[j] = IF test_set.labels[j] = 0 THEN 1 ELSE 0
       /\ \A i \in 1..train_set.n, j \in 1..test_set.n :
            train_set.labels[i] = test_set.labels[j] => labels[i].val = actuals[j]

\* both rules applied to splits holding zeros and other digits
C7_Witness ==
  /\ Returned("crosstab")
  /\ \E i, k \in DOMAIN labels : labels[i].val = 1 /\ labels[k].val = 0
  /\ \E j, m \in DOMAIN actuals : actuals[j] = 1 /\ actuals[m] = 0

(* ------------------------------- C8 ----------------------------------- *)
\* C8: when every response carries one prediction per request row in row
\* order, the predictions gathered by the finished loop number N and the
\* i-th is the hosted model's prediction for the i-th test row.
C8_OrderPreserved ==
  (LoopEnded /\ model # "truncating") =>
    /\ Len(predictions) = test_set.n
    /\ \A i \in 1..test_set.n :
         predictions[i] =
           (IF model = "inverted" THEN 1 - (IF test_set.labels[i] = 0 THEN 1 ELSE 0)
                                  ELSE (IF test_set.labels[i] = 0 THEN 1 ELSE 0))

\* a test split of 101 rows, evaluated to the end
C8_Witness ==
  /\ LoopEnded
  /\ model = "exact"
  /\ test_set.n = NumChunks + 1
  /\ Len(predictions) = NumChunks + 1

(* ------------------------------- C9 ----------------------------------- *)
\* the rows of an evaluation call
Rows(e) == e.hi - e.lo + 1

\* the calls were made one per part in part order, and the parts are
\* contiguous, disjoint and cover rows 1..N
Partitioned(E) ==
  /\ Len(E) = NumChunks
  /\ \A c \in 1..NumChunks : E[c].part = c /\ E[c].lo <= E[c].hi + 1
  /\ E[1].lo = 1
  /\ \A c \in 1..(NumChunks - 1) : E[c + 1].lo = E[c].hi + 1
  /\ E[NumChunks].hi = test_set.n
  /\ \A r \in 1..test_set.n :
       Cardinality({ c \in 1..NumChunks : E[c].lo <= r /\ r <= E[c].hi }) = 1

\* C9 as stated: a finished evaluation made exactly 100 predict calls, all
\* parts have the same number of rows, and they partition the test split.
C9_EqualSizeChunks ==
  LET E == EvalCalls
  IN  LoopEnded =>
        /\ Partitioned(E)
        /\ \A c \in 1..NumChunks : Rows(E[c]) = Rows(E[1])

\* C9, amended: a finished evaluation made exactly 100 predict calls, one per
\* part in part order; the parts partition the test split; the first
\* N mod 100 parts have (N div 100) + 1 rows and the others N div 100, so
\* they are all the same size exactly when 100 divides N.
C9_NearEqualChunks ==
  LET E == EvalCalls
  IN  LoopEnded =>
        /\ Partitioned(E)
        /\ \A c \in 1..NumChunks :
             Rows(E[c]) = (test_set.n \div NumChunks)
                            + (IF c <= test_set.n % NumChunks THEN 1 ELSE 0)
        /\ (\A c \in 1..NumChunks : Rows(E[c]) = Rows(E[1]))
             <=> (test_set.n % NumChunks = 0)

\* 199 rows evaluated to the end: 99 parts of two rows and one of one
C9_Witness ==
  /\ LoopEnded
  /\ Len(EvalCalls) = NumChunks
  /\ test_set.n = 2 * NumChunks - 1
  /\ Rows(EvalCalls[1]) = 2
  /\ Rows(EvalCalls[NumChunks]) = 1

(* ------------------------------- C10 ---------------------------------- *)
RECURSIVE SumCells(_, _)
SumCells(t, cells) ==
  IF cells = {} THEN 0
  ELSE LET c == CHOOSE x \in cells : TRUE IN t[c] + SumCells(t, cells \ {c})

\* C10: for actual and predicted labels of equal length, cell (a, p) of the
\* table counts the rows whose binarized actual label is a and whose
\* predicted label is p, cells exist only for pairs that occur, and the
\* cells sum to the number of rows.
C10_CrosstabCounts ==
  Returned("crosstab") =>
    /\ \A a \in {0, 1}, p \in {0, 1} :
         Cell(table, a, p) =
           Cardinality({ i \in 1..test_set.n :
                           /\ (IF test_set.labels[i] = 0 THEN 1 ELSE 0) = a
                           /\ predictions[i] = p })
    /\ DOMAIN table \subseteq {0, 1} \X {0, 1}
    /\ \A c \in DOMAIN table : table[c] > 0
    /\ SumCells(table, DOMAIN table) = test_set.n

\* actual [0,1,0,2] against predicted [1,0,1,0]: two cells of 2, summing to 4
C10_Witness ==
  /\ Returned("crosstab")
  /\ test_set.labels = <<0, 1, 0, 2>>
  /\ predictions = <<1, 0, 1, 0>>
  /\ Cell(table, 1, 1) = 2
  /\ Cell(table, 0, 0) = 2
  /\ SumCells(table, DOMAIN table) = 4
====
